---- MODULE Spec2Model ----
(***************************************************************************)
(* The CDE monitor of cde-simulator: the SimulationChart component's state *)
(* (tick buffer, trigger list, oracle quote, CDE, adaptive bands,          *)
(* published oracle value), its message and fetch handlers and its         *)
(* effects, the pure functions they call, and the price path simulator     *)
(* simulatePrices.                                                         *)
(***************************************************************************)
EXTENDS Integers, Sequences, FiniteSets, TLC

(***************************************************************************)
(* Numbers.  A JavaScript number is modelled as an exact fraction n/d in   *)
(* lowest terms with d > 0; d = 0 holds the non-finite values: 1/0 is      *)
(* Infinity, -1/0 is -Infinity and 0/0 is NaN.  Every operator is exact    *)
(* but Sqrt, which rounds down to a multiple of 1/SqrtScale.  Rounding of  *)
(* IEEE doubles and the sign of zero are not modelled.                     *)
(***************************************************************************)
SqrtScale == 100

AbsI(i) == IF i < 0 THEN -i ELSE i

Sgn(i) == IF i < 0 THEN -1 ELSE IF i > 0 THEN 1 ELSE 0

RECURSIVE GCD(_, _)
GCD(a, b) == IF b = 0 THEN a ELSE GCD(b, a % b)

Norm(n, d) ==
  IF d = 0 THEN [n |-> Sgn(n), d |-> 0]
  ELSE LET g == GCD(AbsI(n), AbsI(d))
       IN [n |-> Sgn(d) * Sgn(n) * (AbsI(n) \div g), d |-> AbsI(d) \div g]

Num(i) == [n |-> i, d |-> 1]

NaN == [n |-> 0, d |-> 0]

Infinity == [n |-> 1, d |-> 0]

IsNaN(x) == x.n = 0 /\ x.d = 0

Neg(x) == [n |-> -x.n, d |-> x.d]

Add(x, y) ==
  IF IsNaN(x) \/ IsNaN(y) THEN NaN
  ELSE IF x.d = 0 /\ y.d = 0 THEN (IF x.n = y.n THEN x ELSE NaN)
  ELSE IF x.d = 0 THEN x
  ELSE IF y.d = 0 THEN y
  ELSE LET g == GCD(x.d, y.d)
       IN Norm(x.n * (y.d \div g) + y.n * (x.d \div g), (x.d \div g) * y.d)

Sub(x, y) == Add(x, Neg(y))

\* Common factors are cancelled before multiplying; 0 * Infinity is NaN.
Mul(x, y) ==
  IF x.d = 0 \/ y.d = 0 THEN Norm(Sgn(x.n) * Sgn(y.n), 0)
  ELSE LET g1 == GCD(AbsI(x.n), y.d)
           g2 == GCD(AbsI(y.n), x.d)
       IN Norm((x.n \div g1) * (y.n \div g2), (x.d \div g2) * (y.d \div g1))

Recip(x) == Norm(x.d, x.n)

Div(x, y) == Mul(x, Recip(y))

Abs(x) == [n |-> AbsI(x.n), d |-> x.d]

\* x < y as JavaScript compares: false when either side is NaN.
LT(x, y) ==
  IF IsNaN(x) \/ IsNaN(y) THEN FALSE
  ELSE IF x.d = 0 /\ y.d = 0 THEN x.n < y.n
  ELSE IF x.d = 0 THEN x.n < 0
  ELSE IF y.d = 0 THEN y.n > 0
  ELSE LET g == GCD(x.d, y.d) IN x.n * (y.d \div g) < y.n * (x.d \div g)

GT(x, y) == LT(y, x)

GE(x, y) == ~IsNaN(x) /\ ~IsNaN(y) /\ ~LT(x, y)

LE(x, y) == GE(y, x)

\* Math.min of two numbers: NaN when either is NaN.
Min(x, y) == IF IsNaN(x) \/ IsNaN(y) THEN NaN ELSE IF LT(y, x) THEN y ELSE x

RECURSIVE IsqrtIn(_, _, _)
IsqrtIn(k, lo, hi) ==
  IF lo >= hi THEN lo
  ELSE LET mid == (lo + hi + 1) \div 2
       IN IF mid * mid <= k THEN IsqrtIn(k, mid, hi) ELSE IsqrtIn(k, lo, mid - 1)

Isqrt(k) == IsqrtIn(k, 0, IF k < 46340 THEN k ELSE 46340)

\* Math.sqrt: NaN below zero, otherwise the root rounded down to 1/SqrtScale.
Sqrt(x) ==
  IF IsNaN(x) \/ x.n < 0 THEN NaN
  ELSE IF x.d = 0 THEN x
  ELSE Norm(Isqrt((x.n * SqrtScale * SqrtScale) \div x.d), SqrtScale)

Null == [null |-> TRUE]

\* JavaScript truthiness of a value of type number | null.
Truthy(x) == x # Null /\ ~IsNaN(x) /\ x.n # 0

(***************************************************************************)
(* Messages.  A MessageEvent's data is modelled by what JSON.parse makes   *)
(* of it: parses is FALSE when JSON.parse throws (or yields null, whose   *)
(* property read throws); otherwise type is the object's type field,       *)
(* hasPrice tells whether it has a price field and price is that field, a  *)
(* string, given as the sequence of its characters.                        *)
(***************************************************************************)
DigitOf(c) ==
  CASE c = "0" -> 0 [] c = "1" -> 1 [] c = "2" -> 2 [] c = "3" -> 3 [] c = "4" -> 4
    [] c = "5" -> 5 [] c = "6" -> 6 [] c = "7" -> 7 [] c = "8" -> 8 [] c = "9" -> 9
    [] OTHER -> -1

\* The number of digits of s from position k on, up to the first non-digit.
RECURSIVE digitRun(_, _)
digitRun(s, k) ==
  IF k > Len(s) \/ DigitOf(s[k]) < 0 THEN 0 ELSE 1 + digitRun(s, k + 1)

\* The value of the digits s[k..k+len-1] read as a decimal numeral after acc.
RECURSIVE digitsValue(_, _, _, _)
digitsValue(s, k, len, acc) ==
  IF len = 0 THEN acc ELSE digitsValue(s, k + 1, len - 1, 10 * acc + DigitOf(s[k]))

RECURSIVE Pow10(_)
Pow10(k) == IF k = 0 THEN 1 ELSE 10 * Pow10(k - 1)

\* parseFloat of a string: an optional sign, digits, an optional point and
\* digits; what follows is ignored, and NaN when no digit starts the number.
\* Leading white space, exponents and "Infinity" are not modelled.
parseFloat(s) ==
  LET signed == Len(s) >= 1 /\ s[1] \in {"-", "+"}
      sign == IF Len(s) >= 1 /\ s[1] = "-" THEN -1 ELSE 1
      from == IF signed THEN 2 ELSE 1
      whole == digitRun(s, from)
      point == from + whole
      frac == IF point <= Len(s) /\ s[point] = "." THEN digitRun(s, point + 1) ELSE 0
  IN IF whole = 0 /\ frac = 0 THEN NaN
     ELSE Norm(sign * digitsValue(s, point + 1, frac, digitsValue(s, from, whole, 0)),
               Pow10(frac))

\* A variant of accepts that leaves out the test of the price field.
acceptsAnyTicker(message) == message.parses /\ message.type = "ticker"

\* JSON.parse(message.data) returns and
\* parsedData.type === "ticker" && parsedData.price holds: a string is truthy
\* when it is not empty.
accepts(message) ==
  /\ message.parses
  /\ message.type = "ticker"
  /\ message.hasPrice
  /\ message.price # << >>

\* The price the handler reads: parseFloat(parsedData.price), and
\* parseFloat(undefined), NaN, when the field is missing.
priceOf(message) == IF message.hasPrice THEN parseFloat(message.price) ELSE NaN


(***************************************************************************)
(* Program constants.                                                      *)
(***************************************************************************)
\* "Keep only the last 1000 points": newData.length > 1000, slice(-1000).
N_max == 1000

\* Math.min(10, index): the rolling window looks back at most 10 points.
MaxLookback == 10

\* params.staticThreshold = 0.02 (App).
staticThreshold == Norm(2, 100)

\* The static band's half-width 0.005 and the adaptive cap 0.01.
StaticHalfWidth == Norm(5, 1000)

VolatilityCap == Norm(1, 100)

(***************************************************************************)
(* Bounds of the model.                                                    *)
(***************************************************************************)
\* Messages handled in one behaviour of the component.
MaxTicks == 2

\* The buffers SpecBuffer starts from are N_max - Headroom to N_max points long.
Headroom == 2

\* Longest oracle run and longest free-form sequence given to the pure
\* functions.
MaxRunLen == 12

MaxShortLen == 3

\* Longest duration and largest oracleLag given to simulatePrices.
MaxDuration == 6

MaxLag == 3

(***************************************************************************)
(* Pure functions of the component.                                        *)
(***************************************************************************)
\* Variants of cdeTerm with a slip in the loop body: the deviation taken at the
\* earlier point of the pair, and the deviation taken without Math.abs.
cdeTermOfEarlierPoint(prices, i) ==
  LET prev == prices[i - 1]
      curr == prices[i]
      timeDiff == curr.t - prev.t
      priceDiff == Abs(Sub(prev.ref, prev.oracle))
  IN Div(Mul(priceDiff, Num(timeDiff)), Num(1000))

cdeTermSigned(prices, i) ==
  LET prev == prices[i - 1]
      curr == prices[i]
      timeDiff == curr.t - prev.t
      priceDiff == Sub(curr.ref, curr.oracle)
  IN Div(Mul(priceDiff, Num(timeDiff)), Num(1000))

\* The term the loop body adds for index i (from 1 in the source, so the
\* pair is prices[i - 1], prices[i]; here sequences count from 1).
cdeTerm(prices, i) ==
  LET prev == prices[i - 1]
      curr == prices[i]
      timeDiff == curr.t - prev.t
      priceDiff == Abs(Sub(curr.ref, curr.oracle))
  IN Div(Mul(priceDiff, Num(timeDiff)), Num(1000))

\* totalArea after the loop has run over the indices lo..hi.  The sum is
\* exact, so it is taken by halves: a buffer of N_max points is summed at a
\* nesting depth of 10 instead of 1000.
RECURSIVE calculateCDELoop(_, _, _)
calculateCDELoop(prices, lo, hi) ==
  IF lo > hi THEN Num(0)
  ELSE IF lo = hi THEN cdeTerm(prices, lo)
  ELSE LET mid == (lo + hi) \div 2
       IN Add(calculateCDELoop(prices, lo, mid), calculateCDELoop(prices, mid + 1, hi))

calculateCDE(prices) ==
  IF Len(prices) < 2 THEN Num(0) ELSE calculateCDELoop(prices, 2, Len(prices))

\* A variant of getThresholds that reads the oldest point, data[0].
getThresholdsOfOldest(d) ==
  IF Len(d) = 0 THEN [upper |-> Num(0), lower |-> Num(0)]
  ELSE LET currentPrice == d[1].oracle
       IN [upper |-> Mul(currentPrice, Add(Num(1), StaticHalfWidth)),
           lower |-> Mul(currentPrice, Sub(Num(1), StaticHalfWidth))]

\* getThresholds reads the component's data; d is that buffer.
getThresholds(d) ==
  IF Len(d) = 0 THEN [upper |-> Num(0), lower |-> Num(0)]
  ELSE LET currentPrice == d[Len(d)].oracle
       IN [upper |-> Mul(currentPrice, Add(Num(1), StaticHalfWidth)),
           lower |-> Mul(currentPrice, Sub(Num(1), StaticHalfWidth))]

\* recentPrices.reduce((a, b) => a + b, 0), folded from the left.
RECURSIVE reduceSum(_, _, _)
reduceSum(xs, k, a) ==
  IF k > Len(xs) THEN a ELSE reduceSum(xs, k + 1, Add(a, xs[k]))

\* recentPrices.reduce((a, b) => a + Math.pow(b - mean, 2), 0).
RECURSIVE reduceSquares(_, _, _, _)
reduceSquares(xs, k, a, mean) ==
  IF k > Len(xs) THEN a
  ELSE reduceSquares(xs, k + 1,
         Add(a, Mul(Sub(xs[k], mean), Sub(xs[k], mean))), mean)

\* A variant of recentPricesAt whose window is not cut at the lookback:
\* prices.slice(0, index + 1).
recentPricesFromStart(prices, index) ==
  [k \in 1..(index + 1) |-> prices[k].oracle]

\* prices.slice(index - lookback, index + 1).map(p => p.oracle); index counts
\* from 0 as in the source, sequences from 1.
recentPricesAt(prices, index) ==
  LET lookback == IF MaxLookback < index THEN MaxLookback ELSE index
  IN [k \in 1..(lookback + 1) |-> prices[index - lookback + k].oracle]

volatilityFactorAt(prices, index) ==
  LET recentPrices == recentPricesAt(prices, index)
      mean == Div(reduceSum(recentPrices, 1, Num(0)), Num(Len(recentPrices)))
      variance == Div(reduceSquares(recentPrices, 1, Num(0), mean),
                      Num(Len(recentPrices)))
      stdDev == Sqrt(variance)
  IN Min(VolatilityCap, Div(stdDev, mean))

\* The map callback of calculateAdaptiveThresholds for one index (from 0).
adaptiveBandAt(prices, index) ==
  LET point == prices[index + 1]
  IN IF index = 0
     THEN [upper |-> Mul(point.oracle, Norm(1005, 1000)),
           lower |-> Mul(point.oracle, Norm(995, 1000))]
     ELSE LET volatilityFactor == volatilityFactorAt(prices, index)
          IN [upper |-> Mul(point.oracle, Add(Num(1), volatilityFactor)),
              lower |-> Mul(point.oracle, Sub(Num(1), volatilityFactor))]

calculateAdaptiveThresholds(prices) ==
  IF Len(prices) < 2 THEN << >>
  ELSE [i \in 1..Len(prices) |-> adaptiveBandAt(prices, i - 1)]

\* data.map((_, index) => index < 2 ? 0 : calculateCDE(data.slice(0, index + 1)))
cdeSeries(d) ==
  [i \in 1..Len(d) |-> IF i - 1 < 2 THEN Num(0) ELSE calculateCDE(SubSeq(d, 1, i))]

\* A variant of adaptiveOracleEffect that, without a quote, decides against the
\* latest point's oracle value instead of returning.
adaptiveOracleEffectWithFallback(d, q, thresholds, current) ==
  IF Len(d) = 0 \/ Len(thresholds) = 0 THEN current
  ELSE LET currentPoint == d[Len(d)]
           currentThresholds == thresholds[Len(thresholds)]
           quote == IF Truthy(q) THEN q ELSE currentPoint.oracle
           deviation == Div(Abs(Sub(currentPoint.ref, quote)), quote)
           thresholdDeviation ==
             Div(Abs(Sub(currentThresholds.upper, currentThresholds.lower)),
                 Mul(Num(2), quote))
       IN IF GT(deviation, thresholdDeviation) THEN currentPoint.ref ELSE quote

\* The adaptive-oracle effect: the value it leaves in adaptiveOraclePrice, given
\* the data, chainlinkPrice and adaptiveThresholds of the render it runs in.
adaptiveOracleEffect(d, q, thresholds, current) ==
  IF Len(d) = 0 \/ ~Truthy(q) THEN current
  ELSE IF Len(thresholds) = 0 THEN current
  ELSE LET currentPoint == d[Len(d)]
           currentThresholds == thresholds[Len(thresholds)]
           deviation == Div(Abs(Sub(currentPoint.ref, q)), q)
           thresholdDeviation ==
             Div(Abs(Sub(currentThresholds.upper, currentThresholds.lower)),
                 Mul(Num(2), q))
       IN IF GT(deviation, thresholdDeviation) THEN currentPoint.ref ELSE q


(***************************************************************************)
(* State.  The first eight variables are the component's useState cells.   *)
(*   handlerChainlinkPrice  the chainlinkPrice captured by the             *)
(*       handleWebSocketMessage that is installed as ws.onmessage; the     *)
(*       WebSocket effect installs a new handler when chainlinkPrice       *)
(*       has changed                                                       *)
(*   changedDeps  the effect dependencies among data, chainlinkPrice and   *)
(*       adaptiveThresholds that changed since effects last ran            *)
(*   now          the last value Date.now() returned                       *)
(*   ingested     every point the handler appended, in arrival order       *)
(*   ticks        the number of messages delivered to the handler          *)
(*   delivered    the last message delivered to the handler                *)
(*   fetchFailed  whether the last fetchChainlinkPrice to finish threw     *)
(*   arg, ret     argument and result of a direct call of a pure function  *)
(***************************************************************************)
VARIABLES data, staticPoints, chainlinkPrice, currentCoinbasePrice, cde,
          adaptiveThresholds, cdeValues, adaptiveOraclePrice,
          handlerChainlinkPrice, changedDeps, now, ingested, ticks, delivered,
          fetchFailed, arg, ret

vars == <<data, staticPoints, chainlinkPrice, currentCoinbasePrice, cde,
          adaptiveThresholds, cdeValues, adaptiveOraclePrice,
          handlerChainlinkPrice, changedDeps, now, ingested, ticks, delivered,
          fetchFailed, arg, ret>>

\* Everything but the outcome of the last fetch and the direct calls.
componentState == <<data, staticPoints, chainlinkPrice, currentCoinbasePrice, cde,
                    adaptiveThresholds, cdeValues, adaptiveOraclePrice,
                    handlerChainlinkPrice, changedDeps, now, ingested, ticks,
                    delivered>>

componentVars == <<data, staticPoints, chainlinkPrice, currentCoinbasePrice, cde,
                   adaptiveThresholds, cdeValues, adaptiveOraclePrice,
                   handlerChainlinkPrice, changedDeps, now, ingested, ticks,
                   delivered, fetchFailed>>

NoRet == [fn |-> "none", cde |-> Num(0), band |-> [upper |-> Num(0), lower |-> Num(0)],
          bands |-> << >>, prices |-> << >>]

\* A ticker message as the feed sends it, its price a string.
ticker(text) == [parses |-> TRUE, type |-> "ticker", hasPrice |-> TRUE, price |-> text]

\* The tickers of the feed, with prices 100 and 101, and the quotes a fetch
\* returns (after Number(answer) / 1e8).
TickerMessages == {ticker(<<"1", "0", "0">>), ticker(<<"1", "0", "1", ".", "0", "0">>)}

\* Messages the handler does not take for a tick: data that is not JSON, a
\* message of another type, a ticker without a price field, and one whose
\* price is the empty string.
OtherMessages ==
  {[parses |-> FALSE, type |-> "", hasPrice |-> FALSE, price |-> << >>],
   [parses |-> TRUE, type |-> "subscriptions", hasPrice |-> FALSE, price |-> << >>],
   [parses |-> TRUE, type |-> "heartbeat", hasPrice |-> TRUE, price |-> <<"1", "0", "0">>],
   [parses |-> TRUE, type |-> "ticker", hasPrice |-> FALSE, price |-> << >>],
   ticker(<< >>)}

QuoteValues == {Num(0), Num(102), Num(103)}

\* Prices of either sign, of zero and far apart.
WideOracles == {Num(-100), Num(-5), Num(0), Num(5), Num(100), Num(110)}

WideMessages ==
  {ticker(<<"-", "1", "0", "0">>), ticker(<<"-", "5">>), ticker(<<"0">>),
   ticker(<<"5">>), ticker(<<"1", "0", "0">>), ticker(<<"1", "1", "0">>)}

\* Date.now() is wall-clock time: it may repeat or step back between messages.
ClockSteps == {-1, 0, 1}

\* The state after the component mounted and its first effects ran.
Init ==
  /\ data = << >>
  /\ staticPoints = << >>
  /\ chainlinkPrice = Null
  /\ currentCoinbasePrice = Null
  /\ cde = Num(0)
  /\ adaptiveThresholds = << >>
  /\ cdeValues = << >>
  /\ adaptiveOraclePrice = Null
  /\ handlerChainlinkPrice = Null
  /\ changedDeps = {}
  /\ now = 0
  /\ ingested = << >>
  /\ ticks = 0
  /\ delivered = Null
  /\ fetchFailed = FALSE
  /\ arg = << >>
  /\ ret = NoRet

\* A variant of keepLast that cuts one point too many: newData.slice(-999).
keepLastButOne(newData) ==
  IF Len(newData) > N_max
  THEN SubSeq(newData, Len(newData) - N_max + 2, Len(newData))
  ELSE newData

\* A variant of keepLast that cuts at the other end: newData.slice(0, 1000).
keepFirst(newData) ==
  IF Len(newData) > N_max THEN SubSeq(newData, 1, N_max) ELSE newData

\* newData.length > 1000 ? newData.slice(-1000) : newData
keepLast(newData) ==
  IF Len(newData) > N_max
  THEN SubSeq(newData, Len(newData) - N_max + 1, Len(newData))
  ELSE newData

\* A variant of newPoint that leaves the quote out: oracle: price.
newPointOfPriceOnly(timestamp, price, quote) ==
  [t |-> timestamp, ref |-> price, oracle |-> price]

\* A variant of newPoint that falls back to zero: oracle: chainlinkPrice || 0.
newPointOfQuoteOrZero(timestamp, price, quote) ==
  [t |-> timestamp, ref |-> price, oracle |-> IF Truthy(quote) THEN quote ELSE Num(0)]

\* The point the handler appends: oracle is chainlinkPrice || price.
newPoint(timestamp, price, quote) ==
  [t |-> timestamp, ref |-> price, oracle |-> IF Truthy(quote) THEN quote ELSE price]

\* A variant of triggers that compares with >= instead of >.
triggersAtThreshold(price, quote) ==
  /\ Truthy(quote)
  /\ GE(Div(Abs(Sub(quote, price)), price), staticThreshold)

\* if (chainlinkPrice) { deviation = |chainlinkPrice - price| / price;
\*                       if (deviation > params.staticThreshold) ... }
triggers(price, quote) ==
  /\ Truthy(quote)
  /\ GT(Div(Abs(Sub(quote, price)), price), staticThreshold)

\* A variant of appendTrigger that keeps the new point only:
\* setStaticPoints([{ t, value }]).
replaceTriggers(prev, timestamp, price) == <<[t |-> timestamp, value |-> price]>>

\* The updater (prev) => [...prev, { t: timestamp, value: price }].
appendTrigger(prev, timestamp, price) == Append(prev, [t |-> timestamp, value |-> price])

\* handleWebSocketMessage, and the render that applies its queued updates.  A
\* message that does not parse (the catch block logs) or fails the test of its
\* type and price is left alone.  For a ticker with a price: the buffer append,
\* setCde inside the second setData updater (which sees the appended buffer),
\* and the trigger point.  step is how far Date.now() moved since the last
\* message.
handleWebSocketMessage(message, step) ==
  /\ ticks < MaxTicks
  /\ ticks' = ticks + 1
  /\ delivered' = message
  /\ IF accepts(message)
     THEN LET price == priceOf(message)
              timestamp == now + step
              quote == handlerChainlinkPrice
              point == newPoint(timestamp, price, quote)
              newData == keepLast(Append(data, point))
          IN /\ data' = newData
             /\ cde' = calculateCDE(newData)
             /\ staticPoints' = IF triggers(price, quote)
                                THEN appendTrigger(staticPoints, timestamp, price)
                                ELSE staticPoints
             /\ currentCoinbasePrice' = price
             /\ now' = timestamp
             /\ ingested' = Append(ingested, point)
             /\ changedDeps' = changedDeps \cup {"data"}
     ELSE UNCHANGED <<data, cde, staticPoints, currentCoinbasePrice, now, ingested,
                      changedDeps>>
  /\ UNCHANGED <<chainlinkPrice, adaptiveThresholds, cdeValues, adaptiveOraclePrice,
                 handlerChainlinkPrice, fetchFailed, arg, ret>>

\* fetchChainlinkPrice when latestRoundData() answers: setChainlinkPrice(price).
fetchChainlinkPriceOk(price) ==
  /\ chainlinkPrice' = price
  /\ changedDeps' = IF price = chainlinkPrice THEN changedDeps
                    ELSE changedDeps \cup {"chainlinkPrice"}
  /\ fetchFailed' = FALSE
  /\ UNCHANGED <<data, staticPoints, currentCoinbasePrice, cde, adaptiveThresholds,
                 cdeValues, adaptiveOraclePrice, handlerChainlinkPrice, now,
                 ingested, ticks, delivered, arg, ret>>

\* A variant of fetchChainlinkPriceFailed whose catch block clears the quote:
\* setChainlinkPrice(null).
fetchChainlinkPriceFailedClearing ==
  /\ chainlinkPrice' = Null
  /\ changedDeps' = IF chainlinkPrice = Null THEN changedDeps
                    ELSE changedDeps \cup {"chainlinkPrice"}
  /\ fetchFailed' = TRUE
  /\ UNCHANGED <<data, staticPoints, currentCoinbasePrice, cde, adaptiveThresholds,
                 cdeValues, adaptiveOraclePrice, handlerChainlinkPrice, now,
                 ingested, ticks, delivered, arg, ret>>

\* fetchChainlinkPrice when the call throws: the catch block only logs, and no
\* state of the component changes.
fetchChainlinkPriceFailed ==
  /\ fetchFailed' = TRUE
  /\ UNCHANGED <<componentState, arg, ret>>

\* One flush of the effects whose dependencies changed, each reading the state
\* of the render it belongs to: the WebSocket effect installs the handler that
\* captured the current chainlinkPrice; the adaptive-threshold and CDE-series
\* effects recompute from data; the adaptive-oracle effect decides from data,
\* chainlinkPrice and the adaptiveThresholds of this render.  What they set is
\* seen by the next render, so a new adaptiveThresholds runs the adaptive-oracle
\* effect once more.
runEffects ==
  /\ changedDeps # {}
  /\ handlerChainlinkPrice' = IF "chainlinkPrice" \in changedDeps
                              THEN chainlinkPrice ELSE handlerChainlinkPrice
  /\ adaptiveThresholds' = IF "data" \in changedDeps
                           THEN calculateAdaptiveThresholds(data)
                           ELSE adaptiveThresholds
  /\ cdeValues' = IF "data" \in changedDeps THEN cdeSeries(data) ELSE cdeValues
  /\ adaptiveOraclePrice' =
       adaptiveOracleEffect(data, chainlinkPrice, adaptiveThresholds,
                            adaptiveOraclePrice)
  /\ changedDeps' = IF "data" \in changedDeps THEN {"adaptiveThresholds"} ELSE {}
  /\ UNCHANGED <<data, staticPoints, chainlinkPrice, currentCoinbasePrice, cde, now,
                 ingested, ticks, delivered, fetchFailed, arg, ret>>

\* The component while the feed sends well-formed tickers and every fetch of
\* the quote answers.
Next ==
  \/ \E message \in TickerMessages, step \in ClockSteps :
       handleWebSocketMessage(message, step)
  \/ \E price \in QuoteValues : fetchChainlinkPriceOk(price)
  \/ runEffects

Spec == Init /\ [][Next]_vars

(***************************************************************************)
(* SpecFeed: the component on a feed that also sends messages the handler  *)
(* does not take for ticks, with fetches of the quote that may throw.      *)
(* Messages are a millisecond apart.                                       *)
(***************************************************************************)
FeedQuotes == {Num(103)}

NextFeed ==
  \/ \E message \in TickerMessages \cup OtherMessages : handleWebSocketMessage(message, 1)
  \/ \E price \in FeedQuotes : fetchChainlinkPriceOk(price)
  \/ fetchChainlinkPriceFailed
  \/ runEffects

SpecFeed == Init /\ [][NextFeed]_vars

(***************************************************************************)
(* SpecLater: the same component and feed, from the state it is in after   *)
(* mount, one ticker message with price 100 and the effects of its render. *)
(* ticks counts the messages delivered after that one, so the buffer grows *)
(* to a point that has both an earlier and a later neighbour.              *)
(***************************************************************************)
InitLater ==
  LET first == <<newPoint(1, Num(100), Null)>>
      bands == calculateAdaptiveThresholds(first)
  IN /\ data = first
     /\ staticPoints = << >>
     /\ chainlinkPrice = Null
     /\ currentCoinbasePrice = Num(100)
     /\ cde = calculateCDE(first)
     /\ adaptiveThresholds = bands
     /\ cdeValues = cdeSeries(first)
     /\ adaptiveOraclePrice = adaptiveOracleEffect(first, Null, bands, Null)
     /\ handlerChainlinkPrice = Null
     /\ changedDeps = {}
     /\ now = 1
     /\ ingested = first
     /\ ticks = 0
     /\ delivered = ticker(<<"1", "0", "0">>)
     /\ fetchFailed = FALSE
     /\ arg = << >>
     /\ ret = NoRet

SpecLater == InitLater /\ [][NextFeed]_vars


(***************************************************************************)
(* SpecBuffer: the message handler on a buffer at or near its capacity.    *)
(* It starts after N_max - h messages (0 <= h <= Headroom) with price 100, *)
(* one millisecond apart, with every effect run, in one of two histories:  *)
(*   - no quote was ever available;                                        *)
(*   - the first three messages arrived under a quote of 103 and each put  *)
(*     a trigger point on the list, the others arrived under a quote of 0  *)
(*     (which the handler takes for none), and a quote of 103 has just     *)
(*     come back.                                                          *)
(* Effects write none of data, cde or staticPoints and are not run here.   *)
(***************************************************************************)
steadyBuffer(len) ==
  [i \in 1..len |-> [t |-> i, ref |-> Num(100), oracle |-> Num(100)]]

\* The steady buffer whose first early points were appended under the quote
\* first.
bufferAfter(first, early, len) ==
  [i \in 1..len |-> IF i <= early THEN newPoint(i, Num(100), first)
                    ELSE steadyBuffer(len)[i]]

\* How many messages arrived under the first quote.
EarlyMessages == 3

\* Only the early points differ from their oracle value, so from the third
\* point on every prefix of the buffer has the CDE of the whole buffer.
InitBuffer ==
  \E h \in 0..Headroom, quote \in {Null, Num(103)} :
    LET filled == bufferAfter(quote, EarlyMessages, N_max - h)
        bands == calculateAdaptiveThresholds(filled)
    IN /\ data = filled
       /\ staticPoints = IF triggers(Num(100), quote)
                         THEN [i \in 1..EarlyMessages |-> [t |-> i, value |-> Num(100)]]
                         ELSE << >>
       /\ chainlinkPrice = quote
       /\ currentCoinbasePrice = Num(100)
       /\ cde = calculateCDE(filled)
       /\ adaptiveThresholds = bands
       /\ cdeValues = [i \in 1..Len(filled) |-> IF i - 1 < 2 THEN Num(0) ELSE cde]
       /\ adaptiveOraclePrice = adaptiveOracleEffect(filled, quote, bands, Null)
       /\ handlerChainlinkPrice = quote
       /\ changedDeps = {}
       /\ now = N_max - h
       /\ ingested = filled
       /\ ticks = 0
       /\ delivered = ticker(<<"1", "0", "0">>)
       /\ fetchFailed = FALSE
       /\ arg = << >>
       /\ ret = NoRet

NextBuffer ==
  \E message \in TickerMessages, step \in ClockSteps : handleWebSocketMessage(message, step)

SpecBuffer == InitBuffer /\ [][NextBuffer]_vars

(***************************************************************************)
(* SpecWide: the component fed ticker prices of either sign and of zero,   *)
(* one millisecond apart, while no quote arrives.                          *)
(***************************************************************************)
NextWide ==
  \/ \E message \in WideMessages : handleWebSocketMessage(message, 1)
  \/ runEffects

SpecWide == Init /\ [][NextWide]_vars

(***************************************************************************)
(* SpecPure: the pure functions called directly on a bounded set of point  *)
(* sequences, which need not be buffers the handler can build.             *)
(***************************************************************************)
\* Runs of oracle price 100 with at most two points at 101, long enough to
\* overrun the lookback.
OracleRuns ==
  {[i \in 1..len |-> [ref |-> Num(100), oracle |-> IF i \in at THEN Num(101) ELSE Num(100)]] :
     len \in 0..MaxRunLen, at \in {s \in SUBSET (1..MaxRunLen) : Cardinality(s) <= 2}}

\* Short sequences of such oracle prices.
WideRuns ==
  UNION {[1..len -> {[ref |-> Num(100), oracle |-> o] : o \in WideOracles}] :
           len \in 0..MaxShortLen}

stamped(run) == [i \in 1..Len(run) |-> [t |-> i, ref |-> run[i].ref, oracle |-> run[i].oracle]]

\* Short sequences with free timestamps (out of order too) and deviations.
FreePoints ==
  {[t |-> t, ref |-> Num(r), oracle |-> Num(o)] : t \in {0, 1}, r \in {100, 103}, o \in {100, 101}}

FreeSeqs == UNION {[1..len -> FreePoints] : len \in 0..MaxShortLen}

PureInputs == {stamped(run) : run \in OracleRuns \cup WideRuns} \cup FreeSeqs

InitPure ==
  /\ arg \in PureInputs
  /\ ret = NoRet
  /\ data = << >>
  /\ staticPoints = << >>
  /\ chainlinkPrice = Null
  /\ currentCoinbasePrice = Null
  /\ cde = Num(0)
  /\ adaptiveThresholds = << >>
  /\ cdeValues = << >>
  /\ adaptiveOraclePrice = Null
  /\ handlerChainlinkPrice = Null
  /\ changedDeps = {}
  /\ now = 0
  /\ ingested = << >>
  /\ ticks = 0
  /\ delivered = Null
  /\ fetchFailed = FALSE

callCalculateCDE ==
  /\ ret.fn = "none"
  /\ ret' = [NoRet EXCEPT !.fn = "calculateCDE", !.cde = calculateCDE(arg)]
  /\ UNCHANGED <<arg, componentVars>>

callGetThresholds ==
  /\ ret.fn = "none"
  /\ ret' = [NoRet EXCEPT !.fn = "getThresholds", !.band = getThresholds(arg)]
  /\ UNCHANGED <<arg, componentVars>>

callCalculateAdaptiveThresholds ==
  /\ ret.fn = "none"
  /\ ret' = [NoRet EXCEPT !.fn = "calculateAdaptiveThresholds",
                          !.bands = calculateAdaptiveThresholds(arg)]
  /\ UNCHANGED <<arg, componentVars>>

NextPure == callCalculateCDE \/ callGetThresholds \/ callCalculateAdaptiveThresholds

SpecPure == InitPure /\ [][NextPure]_vars

(***************************************************************************)
(* simulatePrices.  Its calls of Math.random() are an input: randoms is    *)
(* the sequence of the values they return, in call order.  The options     *)
(* argument is a record: defined is FALSE when the argument is left out,   *)
(* given is the set of the names of the fields the object has, and the     *)
(* field of a name that is not given is never read.                        *)
(***************************************************************************)
\* const { basePrice = 100, useRandomWalk = false, volatility = 0.02,
\*         oracleLag = 0, oracleNoise = 0.5, drift = 0 } = options || {}
destructure(options) ==
  LET has(field) == options.defined /\ field \in options.given
  IN [basePrice |-> IF has("basePrice") THEN options.basePrice ELSE Num(100),
      useRandomWalk |-> IF has("useRandomWalk") THEN options.useRandomWalk ELSE FALSE,
      volatility |-> IF has("volatility") THEN options.volatility ELSE Norm(2, 100),
      oracleLag |-> IF has("oracleLag") THEN options.oracleLag ELSE 0,
      oracleNoise |-> IF has("oracleNoise") THEN options.oracleNoise ELSE Norm(5, 10),
      drift |-> IF has("drift") THEN options.drift ELSE Num(0)]

\* Math.sin(t / 10) for t = 0, 1, ..., rounded to a multiple of 1/10000.
SinOfTenths == <<0, 998, 1987, 2955, 3894, 4794, 5646, 6442, 7174>>

sinOfTenth(t) == Norm(SinOfTenths[t + 1], 10000)

\* A variant of refIndexOf without the lag.
refIndexUnlagged(t, oracleLag) == t

\* Math.max(0, t - oracleLag)
refIndexOf(t, oracleLag) == IF t - oracleLag > 0 THEN t - oracleLag ELSE 0

\* The for loop from iteration t on; used is the number of values of
\* Math.random() consumed so far.
RECURSIVE simulateLoop(_, _, _, _, _, _, _, _)
simulateLoop(t, duration, o, randoms, used, refPrices, prices, lastRef) ==
  IF ~(t < duration) THEN prices
  ELSE LET ref == IF o.useRandomWalk
                  THEN Add(lastRef, Mul(Mul(Sub(randoms[used + 1], Norm(1, 2)),
                                            o.volatility), o.basePrice))
                  ELSE Add(Add(o.basePrice, Mul(Num(2), sinOfTenth(t))),
                           Mul(o.drift, Num(t)))
           drawn == IF o.useRandomWalk THEN used + 1 ELSE used
           pushed == Append(refPrices, ref)
           refIndex == refIndexOf(t, o.oracleLag)
           oracleBase == pushed[refIndex + 1]
           oracle == Add(oracleBase,
                         Mul(Sub(randoms[drawn + 1], Norm(1, 2)), o.oracleNoise))
       IN simulateLoop(t + 1, duration, o, randoms, drawn + 1, pushed,
                       Append(prices, [t |-> t, ref |-> ref, oracle |-> oracle]), ref)

simulatePrices(duration, options, randoms) ==
  LET o == destructure(options)
  IN simulateLoop(0, duration, o, randoms, 0, << >>, << >>, o.basePrice)

(***************************************************************************)
(* SpecSim: simulatePrices called on bounded inputs: durations from -1 to  *)
(* MaxDuration, lags up to MaxLag, options given or left to their          *)
(* defaults, and values of Math.random() of 1/4 with up to two of 3/4.     *)
(***************************************************************************)
SimOptions ==
  {o \in [defined : BOOLEAN,
          given : SUBSET {"useRandomWalk", "oracleLag", "oracleNoise", "drift"},
          useRandomWalk : {TRUE},
          oracleLag : 0..MaxLag,
          oracleNoise : {Num(0), Num(1)},
          drift : {Num(1)}] :
     /\ ~o.defined => o.given = {}
     /\ "oracleLag" \notin o.given => o.oracleLag = 0
     /\ "oracleNoise" \notin o.given => o.oracleNoise = Num(0)}

\* The number of Math.random() calls of a run.
randomCalls(duration, options) ==
  IF duration <= 0 THEN 0
  ELSE IF destructure(options).useRandomWalk THEN 2 * duration ELSE duration

RandomStreams(len) ==
  {[k \in 1..len |-> IF k \in high THEN Norm(3, 4) ELSE Norm(1, 4)] :
     high \in {h \in SUBSET (1..len) : Cardinality(h) <= 2}}

\* The calls with a duration from -1 up to longest.
SimInputs(longest) ==
  UNION {{[duration |-> duration, options |-> options, randoms |-> randoms] :
            randoms \in RandomStreams(randomCalls(duration, options))} :
         duration \in -1..longest, options \in SimOptions}

InitSim ==
  /\ arg \in SimInputs(MaxDuration)
  /\ ret = NoRet
  /\ data = << >>
  /\ staticPoints = << >>
  /\ chainlinkPrice = Null
  /\ currentCoinbasePrice = Null
  /\ cde = Num(0)
  /\ adaptiveThresholds = << >>
  /\ cdeValues = << >>
  /\ adaptiveOraclePrice = Null
  /\ handlerChainlinkPrice = Null
  /\ changedDeps = {}
  /\ now = 0
  /\ ingested = << >>
  /\ ticks = 0
  /\ delivered = Null
  /\ fetchFailed = FALSE

callSimulatePrices ==
  /\ ret.fn = "none"
  /\ ret' = [NoRet EXCEPT !.fn = "simulatePrices",
                          !.prices = simulatePrices(arg.duration, arg.options, arg.randoms)]
  /\ UNCHANGED <<arg, componentVars>>

NextSim == callSimulatePrices

SpecSim == InitSim /\ [][NextSim]_vars


(***************************************************************************)
(* Definitions the properties below are stated with.  They restate the     *)
(* specification's formulas and use none of the operators above but the    *)
(* arithmetic.                                                             *)
(***************************************************************************)
NonDecreasing(p) == \A i \in 2..Len(p) : p[i - 1].t <= p[i].t

\* Sum over the pairs (p[i-1], p[i]) among the first n points of
\* |p[i].ref - p[i].oracle| * (p[i].t - p[i-1].t) / 1000.
RECURSIVE DeviationArea(_, _)
DeviationArea(p, n) ==
  IF n < 2 THEN Num(0)
  ELSE Add(DeviationArea(p, n - 1),
           Div(Mul(Abs(Sub(p[n].ref, p[n].oracle)), Num(p[n].t - p[n - 1].t)),
               Num(1000)))

RECURSIVE SumOver(_, _)
SumOver(f, S) ==
  IF S = {} THEN Num(0)
  ELSE LET x == CHOOSE y \in S : TRUE IN Add(f[x], SumOver(f, S \ {x}))

\* The positions (from 1) of the window of the point at position pos: the point
\* and the up to ten points before it.
WindowOf(pos) == {k \in 1..pos : k >= pos - 10}

WindowMean(p, pos) ==
  Div(SumOver([k \in WindowOf(pos) |-> p[k].oracle], WindowOf(pos)),
      Num(Cardinality(WindowOf(pos))))

\* Population standard deviation: squared residuals over the sample count.
WindowSigma(p, pos) ==
  LET mu == WindowMean(p, pos)
  IN Sqrt(Div(SumOver([k \in WindowOf(pos) |->
                         Mul(Sub(p[k].oracle, mu), Sub(p[k].oracle, mu))],
                      WindowOf(pos)),
              Num(Cardinality(WindowOf(pos)))))

\* The band the specification gives the point at position pos (from 1).
SpecifiedBand(p, pos) ==
  IF pos = 1
  THEN [upper |-> Mul(p[1].oracle, Norm(1005, 1000)),
        lower |-> Mul(p[1].oracle, Norm(995, 1000))]
  ELSE LET f == Min(Norm(1, 100), Div(WindowSigma(p, pos), WindowMean(p, pos)))
       IN [upper |-> Mul(p[pos].oracle, Add(Num(1), f)),
           lower |-> Mul(p[pos].oracle, Sub(Num(1), f))]

\* A quote is available to the code when it is neither null nor zero: both
\* tests of it, if (chainlinkPrice) and chainlinkPrice || price, are truthiness
\* tests.
Available(q) == q # Null /\ q # Num(0)

(***************************************************************************)
(* C1, under SpecBuffer.                                                   *)
(***************************************************************************)
\* C1: after k ingested ticks the buffer holds exactly min(k, 1000) points, and
\* they are the last min(k, 1000) ingested points in arrival order, unchanged;
\* so an append at capacity drops the single oldest point and nothing else.
C1_BufferIsLastIngested ==
  LET k == Len(ingested)
      m == IF k < 1000 THEN k ELSE 1000
  IN /\ Len(data) = m
     /\ \A i \in 1..m : data[i] = ingested[k - m + i]

\* Two points have been evicted from a full buffer.
C1_Witness ==
  /\ Len(ingested) = 1002
  /\ Len(data) = 1000
  /\ data[1000] = ingested[1002]

(***************************************************************************)
(* C2, under SpecPure.                                                     *)
(***************************************************************************)
\* C2: calculateCDE returns the sum over i = 1..n-1 of
\* |p[i].ref - p[i].oracle| * (p[i].t - p[i-1].t) / 1000, with the deviation of
\* the later point of each pair, and 0 for fewer than two points.
C2_CdeIsLaterPointSum ==
  ret.fn = "calculateCDE" =>
    /\ ret.cde = DeviationArea(arg, Len(arg))
    /\ Len(arg) < 2 => ret.cde = Num(0)

\* Three points whose deviations differ and whose sum is not zero.
C2_Witness ==
  /\ ret.fn = "calculateCDE"
  /\ Len(arg) = 3
  /\ Sub(arg[2].ref, arg[2].oracle) # Sub(arg[3].ref, arg[3].oracle)
  /\ Sub(arg[1].ref, arg[1].oracle) # Sub(arg[2].ref, arg[2].oracle)
  /\ GT(ret.cde, Num(0))

(***************************************************************************)
(* C3, under Spec.                                                         *)
(***************************************************************************)
\* C3: in every reachable state whose buffer timestamps are non-decreasing the
\* CDE scalar, which is calculateCDE of the buffer, is >= 0.
C3_CdeNonNegative ==
  NonDecreasing(data) => /\ cde = calculateCDE(data)
                         /\ GE(cde, Num(0))

\* A buffer in time order whose latest point deviates from the oracle.
C3_Witness ==
  /\ Len(data) >= 2
  /\ NonDecreasing(data)
  /\ LT(data[Len(data)].ref, data[Len(data)].oracle)
  /\ GT(cde, Num(0))

(***************************************************************************)
(* C4, under Spec.                                                         *)
(***************************************************************************)
\* C4: a handled tick with price p appends exactly one TriggerPoint
\* {t: the tick's timestamp, value: p} when the handler has a quote q available
\* and |q - p| / p > 0.02 (strictly), and leaves the trigger list as it is
\* otherwise.
C4_TriggerEmission ==
  [][ticks' = ticks + 1 =>
       LET point == ingested'[Len(ingested')]
           p == point.ref
           q == handlerChainlinkPrice
       IN staticPoints' =
            IF Available(q) /\ GT(Div(Abs(Sub(q, p)), p), Norm(2, 100))
            THEN staticPoints \o <<[t |-> point.t, value |-> p]>>
            ELSE staticPoints]_vars

\* Two ticks were handled with a quote available; one of them emitted.
C4_Witness ==
  /\ Len(ingested) = 2
  /\ Len(staticPoints) = 1
  /\ Available(handlerChainlinkPrice)
  /\ \A i \in 1..2 : ingested[i].oracle # ingested[i].ref

(***************************************************************************)
(* C5, under Spec.                                                         *)
(***************************************************************************)
\* The published value the specification asks for, for buffer d and quote q.
SpecifiedOracle(d, q) ==
  LET latest == d[Len(d)]
      band == SpecifiedBand(d, Len(d))
      deviation == Div(Abs(Sub(latest.ref, q)), q)
      thresholdDeviation == Div(Sub(band.upper, band.lower), Mul(Num(2), q))
  IN IF GT(deviation, thresholdDeviation) THEN latest.ref ELSE q

\* C5: once a tick is fully processed (no effect is left to run), with a
\* non-empty buffer and a quote q available, the published oracle value is
\* latest.ref if |latest.ref - q| / q > (band.upper - band.lower) / (2 * q) and
\* q otherwise, band being the adaptive band of the latest point; for every
\* buffer size >= 1.
C5_PublishedOracleDecided ==
  (changedDeps = {} /\ Len(data) >= 1 /\ Available(chainlinkPrice)) =>
    adaptiveOraclePrice = SpecifiedOracle(data, chainlinkPrice)

\* The same for buffers of two points or more, where the code agrees.
C5_DecidedFromTwoPoints ==
  (changedDeps = {} /\ Len(data) >= 2 /\ Available(chainlinkPrice)) =>
    adaptiveOraclePrice = SpecifiedOracle(data, chainlinkPrice)

(***************************************************************************)
(* C6, under Spec.                                                         *)
(***************************************************************************)
\* C6: while no quote is available, no step - handling a tick or running the
\* effects it triggers - changes the published oracle value.
C6_NoQuoteNoDecision ==
  [][~Available(chainlinkPrice) => adaptiveOraclePrice' = adaptiveOraclePrice]_vars

\* Two ticks were fully processed while no quote had ever arrived.
C6_Witness ==
  /\ chainlinkPrice = Null
  /\ Len(data) = 2
  /\ Len(adaptiveThresholds) = 2
  /\ changedDeps = {}
  /\ adaptiveOraclePrice = Null

(***************************************************************************)
(* C7 and C8, under SpecWide.                                              *)
(***************************************************************************)
\* C7: the volatility factor of every band of the adaptive series at an index
\* >= 1 lies in [0, 0.01], whatever the window, a negative or zero mean
\* included.  (The series is that of the buffer once its effect has run.)
C7_VolatilityFactorClamped ==
  (adaptiveThresholds = calculateAdaptiveThresholds(data)) =>
    \A i \in 2..Len(adaptiveThresholds) :
      LET f == volatilityFactorAt(data, i - 1)
      IN GE(f, Num(0)) /\ LE(f, Norm(1, 100))

\* For windows with a positive mean the factor is within [0, 0.01].
C7_ClampedForPositiveMean ==
  (adaptiveThresholds = calculateAdaptiveThresholds(data)) =>
    \A i \in 2..Len(adaptiveThresholds) :
      GT(WindowMean(data, i), Num(0)) =>
        LET f == volatilityFactorAt(data, i - 1)
        IN GE(f, Num(0)) /\ LE(f, Norm(1, 100))

\* C8: every computed band, the static one of the current buffer and each one
\* of the adaptive series, has upper >= lower, oracle prices of zero and below
\* included.
C8_UpperAtLeastLower ==
  /\ GE(getThresholds(data).upper, getThresholds(data).lower)
  /\ \A i \in 1..Len(adaptiveThresholds) :
       GE(adaptiveThresholds[i].upper, adaptiveThresholds[i].lower)

\* For buffers of positive oracle prices every band has upper >= lower.
C8_OrderedForPositivePrices ==
  (\A i \in 1..Len(data) : GT(data[i].oracle, Num(0))) =>
    /\ GE(getThresholds(data).upper, getThresholds(data).lower)
    /\ (adaptiveThresholds = calculateAdaptiveThresholds(data)) =>
         \A i \in 1..Len(adaptiveThresholds) :
           GE(adaptiveThresholds[i].upper, adaptiveThresholds[i].lower)

(***************************************************************************)
(* C9 and C10, under SpecPure.                                             *)
(***************************************************************************)
\* C9: the static band depends on the latest point only: upper = P * 1.005 and
\* lower = P * 0.995 for P the latest point's oracle value, and {0, 0} for an
\* empty buffer.
C9_StaticBandOfLatest ==
  ret.fn = "getThresholds" =>
    ret.band = IF Len(arg) = 0 THEN [upper |-> Num(0), lower |-> Num(0)]
               ELSE [upper |-> Mul(arg[Len(arg)].oracle, Norm(1005, 1000)),
                     lower |-> Mul(arg[Len(arg)].oracle, Norm(995, 1000))]

\* A band of a buffer whose latest oracle value differs from the first one.
C9_Witness ==
  /\ ret.fn = "getThresholds"
  /\ Len(arg) >= 2
  /\ arg[1].oracle # arg[Len(arg)].oracle
  /\ GT(ret.band.upper, ret.band.lower)

C11_SeriesIsPrefixCde ==
  "data" \notin changedDeps =>
    /\ Len(cdeValues) = Len(data)
    /\ \A i \in 1..Len(data) : cdeValues[i] = DeviationArea(data, i)
    /\ Len(data) >= 1 => cdeValues[Len(data)] = cde

\* The same from index 2 on, where the code agrees; the elements at the indices
\* 0 and 1 are 0.
C11_PrefixCdeFromIndexTwo ==
  "data" \notin changedDeps =>
    /\ Len(cdeValues) = Len(data)
    /\ \A i \in 1..Len(data) :
         cdeValues[i] = IF i <= 2 THEN Num(0) ELSE DeviationArea(data, i)

\* C12: once a tick has been fully processed (no effect is left to run) the
\* adaptive band series has exactly one band per buffer point, whatever the
\* buffer's size, a buffer of exactly one point included.
C12_OneBandPerPoint ==
  changedDeps = {} => Len(adaptiveThresholds) = Len(data)

\* The same for every buffer but that of one point.
C12_OneBandPerPointFromTwo ==
  (changedDeps = {} /\ Len(data) # 1) => Len(adaptiveThresholds) = Len(data)

(***************************************************************************)
(* C13, under SpecBuffer.                                                  *)
(***************************************************************************)
\* C13: the trigger list is append-only: every step, a tick that evicts the
\* oldest buffer point included, leaves the list it found as a prefix of the
\* list it leaves, so no TriggerPoint is removed, reordered or modified, also
\* after the buffer point that caused it is gone.
C13_TriggerListAppendOnly ==
  [][/\ Len(staticPoints') >= Len(staticPoints)
     /\ SubSeq(staticPoints', 1, Len(staticPoints)) = staticPoints]_vars

\* The buffer is full and a trigger point was appended to the three of the
\* early messages, and the first trigger point outlived the buffer point that
\* caused it.
C13_Witness ==
  /\ Len(ingested) > 1000
  /\ Len(staticPoints) = 4
  /\ staticPoints[1].t = ingested[1].t
  /\ \A i \in 1..Len(data) : data[i].t > staticPoints[1].t

(***************************************************************************)
(* C14, under SpecFeed.                                                    *)
(***************************************************************************)
\* The malformed messages: a payload that fails to parse, a message whose type
\* is not ticker, and a message without a price field.
Malformed(m) == ~m.parses \/ m.type # "ticker" \/ ~m.hasPrice

\* C14: the delivery of a malformed message changes nothing: the buffer, the
\* trigger list, the CDE scalar and the published oracle value stay as they are
\* (as do the installed handler and the effects left to run); and a ticker
\* with a price that is delivered next after a malformed message is ingested.
C14_MalformedDropped ==
  [][ticks' = ticks + 1 =>
       /\ Malformed(delivered') =>
            UNCHANGED <<data, staticPoints, cde, adaptiveOraclePrice, ingested,
                        handlerChainlinkPrice, changedDeps>>
       /\ (ticks > 0 /\ Malformed(delivered) /\ ~Malformed(delivered')
              /\ delivered'.price # << >>) =>
            /\ Len(ingested') = Len(ingested) + 1
            /\ data'[Len(data')] = ingested'[Len(ingested')]]_vars

\* A ticker without a price field was dropped while the buffer held a point
\* and the trigger list a trigger point.
C14_Witness ==
  /\ delivered # Null
  /\ delivered.parses /\ delivered.type = "ticker" /\ ~delivered.hasPrice
  /\ Len(data) = 1
  /\ Len(staticPoints) = 1
  /\ ticks = 2

(***************************************************************************)
(* C15, under SpecFeed.                                                    *)
(***************************************************************************)
\* C15: from a failed fetch of the quote until a fetch succeeds the quote
\* counts as absent: a tick appends no TriggerPoint and no step changes the
\* published oracle value.
C15_FailedFetchMeansAbsent ==
  [][fetchFailed =>
       /\ ticks' = ticks + 1 => staticPoints' = staticPoints
       /\ adaptiveOraclePrice' = adaptiveOraclePrice]_vars

\* The same while no fetch has succeeded yet, where the code agrees.
C15_AbsentBeforeFirstQuote ==
  [][(fetchFailed /\ chainlinkPrice = Null) =>
       /\ ticks' = ticks + 1 => staticPoints' = staticPoints
       /\ adaptiveOraclePrice' = adaptiveOraclePrice]_vars

(***************************************************************************)
(* C16, under SpecWide.                                                    *)
(***************************************************************************)
\* C16: where the mean of an adaptive window is zero (all-zero oracle prices,
\* or prices that sum to zero) the band is computed with the fallback
\* volatility factor 0.01: upper = oracle * 1.01 and lower = oracle * 0.99,
\* neither of them NaN.  (The series is that of the buffer once its effect has
\* run.)
C16_ZeroMeanFallback ==
  (adaptiveThresholds = calculateAdaptiveThresholds(data)) =>
    \A i \in 2..Len(adaptiveThresholds) :
      WindowMean(data, i) = Num(0) =>
        /\ adaptiveThresholds[i].upper = Mul(data[i].oracle, Norm(101, 100))
        /\ adaptiveThresholds[i].lower = Mul(data[i].oracle, Norm(99, 100))
        /\ ~IsNaN(adaptiveThresholds[i].upper)
        /\ ~IsNaN(adaptiveThresholds[i].lower)

\* The same for zero-mean windows whose prices are not all zero, where the
\* quotient sigma / mu is Infinity and Math.min picks 0.01.
C16_FallbackForMixedSigns ==
  (adaptiveThresholds = calculateAdaptiveThresholds(data)) =>
    \A i \in 2..Len(adaptiveThresholds) :
      (WindowMean(data, i) = Num(0) /\ \E k \in WindowOf(i) : data[k].oracle # Num(0)) =>
        /\ adaptiveThresholds[i].upper = Mul(data[i].oracle, Norm(101, 100))
        /\ adaptiveThresholds[i].lower = Mul(data[i].oracle, Norm(99, 100))

(***************************************************************************)
(* C17, under SpecSim.                                                     *)
(***************************************************************************)
\* C17: simulatePrices with oracleNoise = 0 and an integer oracleLag >= 0 (0
\* when left out) returns exactly duration points, none when duration <= 0,
\* with t = 0, 1, ..., duration - 1 in order and, at every t,
\* oracle[t] = ref[max(0, t - oracleLag)] exactly; so oracle[t] = ref[0] for
\* all t <= oracleLag.
C17_LaggedOracleWithoutNoise ==
  (/\ ret.fn = "simulatePrices"
   /\ "oracleNoise" \in arg.options.given
   /\ arg.options.oracleNoise = Num(0)) =>
    LET lag == IF "oracleLag" \in arg.options.given THEN arg.options.oracleLag ELSE 0
        count == IF arg.duration > 0 THEN arg.duration ELSE 0
    IN /\ Len(ret.prices) = count
       /\ \A t \in 0..(count - 1) :
            /\ ret.prices[t + 1].t = t
            /\ ret.prices[t + 1].oracle =
                 ret.prices[(IF t > lag THEN t - lag ELSE 0) + 1].ref
            /\ t <= lag => ret.prices[t + 1].oracle = ret.prices[1].ref

\* oracleLag = 3 and oracleNoise = 0: oracle[5] is ref[2] and is not ref[5].
C17_Witness ==
  /\ ret.fn = "simulatePrices"
  /\ arg.options.given = {"oracleNoise", "oracleLag", "useRandomWalk"}
  /\ arg.options.oracleNoise = Num(0)
  /\ arg.options.oracleLag = 3
  /\ Len(ret.prices) = 6
  /\ ret.prices[6].oracle = ret.prices[3].ref
  /\ ret.prices[6].oracle # ret.prices[6].ref

(***************************************************************************)
(* C18, under SpecFeed.                                                    *)
(***************************************************************************)
\* Every derived value is the one computed from the current buffer: the CDE
\* scalar, the CDE series, the adaptive band series, and the published oracle
\* value, which the adaptive-oracle effect would leave as it is.
Recomputed ==
  /\ cde = calculateCDE(data)
  /\ cdeValues = cdeSeries(data)
  /\ adaptiveThresholds = calculateAdaptiveThresholds(data)
  /\ adaptiveOraclePrice =
       adaptiveOracleEffect(data, chainlinkPrice, adaptiveThresholds, adaptiveOraclePrice)

\* C18: the recompute a tick triggers completes before the next tick is
\* ingested: in every state in which a tick is ingested, and in every state
\* with no effect left to run, every derived value is the one computed from
\* the current buffer, so none computed from an older buffer is combined with
\* a newer one.
C18_RecomputedBeforeNextTick ==
  /\ [](changedDeps = {} => Recomputed)
  /\ [][Len(ingested') > Len(ingested) => Recomputed]_vars

\* The same for the states with no effect left to run, where the code agrees.
C18_RecomputedWhenQuiescent == changedDeps = {} => Recomputed

(***************************************************************************)
(* C19, under Spec.                                                        *)
(***************************************************************************)
\* C19: in every reachable state the timestamps of the buffer points are
\* non-decreasing in buffer order, equal neighbours allowed; every append and
\* every eviction keeps them so.
C19_TimestampsNonDecreasing == NonDecreasing(data)

\* Every step in which Date.now() does not step back keeps an ordered buffer
\* ordered.
C19_OrderedWhileClockAdvances ==
  [][(NonDecreasing(data) /\ now' >= now) => NonDecreasing(data')]_vars

(***************************************************************************)
(* C20, under Spec.                                                        *)
(***************************************************************************)
\* C20: a TriggerPoint appended on a tick matches the PricePoint appended to
\* the buffer on that tick: the same timestamp t, value equal to the point's
\* ref, and the point's oracle equal to the quote of the deviation check; and
\* a tick appends a TriggerPoint if and only if the point it appends has
\* |oracle - ref| / ref > 0.02.
C20_TriggerMatchesPoint ==
  [][Len(ingested') > Len(ingested) =>
       LET point == data'[Len(data')]
           deviates == GT(Div(Abs(Sub(point.oracle, point.ref)), point.ref),
                          Norm(2, 100))
       IN /\ Len(staticPoints') = Len(staticPoints) + (IF deviates THEN 1 ELSE 0)
          /\ SubSeq(staticPoints', 1, Len(staticPoints)) = staticPoints
          /\ deviates =>
               /\ staticPoints'[Len(staticPoints')] = [t |-> point.t, value |-> point.ref]
               /\ point.oracle = handlerChainlinkPrice]_vars

\* The first tick, under a quote of 103, put its point and a trigger point of
\* the same timestamp on the lists; the second, under the same quote, deviated
\* by less and put none.
C20_Witness ==
  /\ Len(data) = 2
  /\ Len(staticPoints) = 1
  /\ staticPoints[1].t = data[1].t
  /\ staticPoints[1].value = data[1].ref
  /\ data[1].oracle = Num(103)
  /\ data[2].oracle = Num(103)
  /\ data[2].ref = Num(101)
  /\ data[2].t # data[1].t

(***************************************************************************)
(* C21, under SpecBuffer.                                                  *)
(***************************************************************************)
\* C21: on a tick whose timestamp is not before that of the tick ingested
\* before it, the CDE scalar changes by exactly the term of the appended point
\* minus, when the append evicts, the term of the point that becomes the
\* oldest; so it does not decrease when the buffer held fewer than 1000 points,
\* and it decreases only on an evicting append.
C21_CdeChangesByEndTerms ==
  [][(/\ Len(ingested') > Len(ingested)
      /\ data # << >> => data[Len(data)].t <= ingested'[Len(ingested')].t) =>
       LET point == ingested'[Len(ingested')]
           evicts == Len(data) = 1000
           added == IF data = << >> THEN Num(0)
                    ELSE Div(Mul(Abs(Sub(point.ref, point.oracle)),
                                 Num(point.t - data[Len(data)].t)), Num(1000))
           dropped == IF evicts
                      THEN Div(Mul(Abs(Sub(data[2].ref, data[2].oracle)),
                                   Num(data[2].t - data[1].t)), Num(1000))
                      ELSE Num(0)
       IN /\ cde' = Sub(Add(cde, added), dropped)
          /\ ~evicts => GE(cde', cde)
          /\ LT(cde', cde) => evicts]_vars

\* A buffer of 999 points with a CDE of 0.006 took a tick that added 0.003
\* without evicting, then a tick that added 0.002 and evicted the oldest point,
\* which took the term 0.003 of the new oldest point away.
C21_Witness ==
  /\ Len(ingested) = 1001
  /\ ticks = 2
  /\ NonDecreasing(ingested)
  /\ Len(data) = 1000
  /\ data[1] = ingested[2]
  /\ data[1].oracle = Num(103)
  /\ data[999].ref = Num(100) /\ data[999].oracle = Num(103) /\ data[999].t = 1000
  /\ data[1000].ref = Num(101) /\ data[1000].oracle = Num(103) /\ data[1000].t = 1001
  /\ cde = Norm(8, 1000)

(***************************************************************************)
(* C22, under SpecFeed.                                                    *)
(***************************************************************************)
\* C22: a fetch of the quote that fails changes no state of the component, the
\* quote, the buffer, the trigger list, the CDE and the published oracle value
\* among it; a stored quote never goes back to null; and the stored quote
\* changes only in a fetch that succeeds, to the value that fetch obtained,
\* with nothing else of the component changing in that step.
C22_FailedFetchChangesNothing ==
  /\ [][(fetchFailed' /\ ~fetchFailed) => UNCHANGED componentState]_vars
  /\ [][chainlinkPrice # Null => chainlinkPrice' # Null]_vars
  /\ [][chainlinkPrice' # chainlinkPrice =>
          /\ ~fetchFailed'
          /\ chainlinkPrice' \in FeedQuotes
          /\ UNCHANGED <<data, staticPoints, currentCoinbasePrice, cde,
                         adaptiveThresholds, cdeValues, adaptiveOraclePrice,
                         handlerChainlinkPrice, ingested, ticks>>]_vars

\* A quote of 103 was stored, two ticks were ingested under it and a value was
\* published; the last fetch failed and all of it is still in place.
C22_Witness ==
  /\ fetchFailed
  /\ chainlinkPrice = Num(103)
  /\ handlerChainlinkPrice = Num(103)
  /\ Len(data) = 2
  /\ data[2].oracle = Num(103)
  /\ Len(staticPoints) >= 1
  /\ adaptiveOraclePrice # Null
  /\ changedDeps = {}

(***************************************************************************)
(* C23, under SpecLater.                                                   *)
(***************************************************************************)
\* |p[j].ref - p[j].oracle| * (p[j].t - p[j-1].t) / 1000, what the point at
\* position j (from 2) adds to the CDE of p.
TermOf(p, j) ==
  Div(Mul(Abs(Sub(p[j].ref, p[j].oracle)), Num(p[j].t - p[j - 1].t)), Num(1000))

\* The sum of the terms of the first k points of p, that of position i left
\* out.
AreaWithout(p, k, i) ==
  SumOver([j \in (2..k) \ {i} |-> TermOf(p, j)], (2..k) \ {i})

\* C23: a tick ingested while the handler has no quote appends a point whose
\* oracle is its own ref, and the CDE scalar stays as it is on that append; a
\* tick ingested while it has a quote appends a point whose oracle is that
\* quote.  A point whose oracle is its ref adds nothing to the CDE of any
\* prefix of the buffer that holds it: the prefix CDE, the CDE scalar for the
\* whole buffer, and the entry of the CDE series once it is computed are the
\* sums of the other points' terms.
C23_OracleFallsBackToRef ==
  /\ [][Len(ingested') > Len(ingested) =>
          LET point == data'[Len(data')]
              q == handlerChainlinkPrice
          IN IF Available(q)
             THEN point.oracle = q
             ELSE /\ point.oracle = point.ref
                  /\ Len(data) < 1000 => cde' = cde]_vars
  /\ [](\A i \in 1..Len(data) :
          data[i].oracle = data[i].ref =>
            \A k \in i..Len(data) :
              /\ calculateCDE(SubSeq(data, 1, k)) = AreaWithout(data, k, i)
              /\ k = Len(data) => cde = AreaWithout(data, k, i)
              /\ (changedDeps = {} /\ k >= 3) => cdeValues[k] = AreaWithout(data, k, i))

\* The second point was appended while no quote was known and has its ref for
\* oracle; the third was appended under the quote 103 at price 100.  The CDE,
\* and the series entry of the third point, are the third point's term alone.
C23_Witness ==
  /\ ticks = 2
  /\ Len(data) = 3
  /\ data[2].oracle = data[2].ref
  /\ data[2].t < data[3].t
  /\ data[3].ref = Num(100)
  /\ data[3].oracle = Num(103)
  /\ changedDeps = {}
  /\ cde = Norm(3, 1000)
  /\ cdeValues[3] = Norm(3, 1000)

====
